---- MODULE Spec2Model ----
(***************************************************************************)
(* Model of the video file identity and rename subsystem                   *)
(* (app/modules/rename_video_files.py): the filesystem, the videos table   *)
(* of the registry, and the three batch operations                         *)
(*   rename_videos_and_save_metadata   (rename_tree)                       *)
(*   restore_video_filenames_from_db   (restore_all)                       *)
(*   remove_nonexistent_files_from_db  (purge_missing)                     *)
(* stepped file by file / row by row.  Strings are sequences of            *)
(* one-character strings so that splitext, lower, basename and the         *)
(* 11-character test are computed, not assumed.                            *)
(***************************************************************************)
EXTENDS Integers, Sequences, FiniteSets, TLC

VARIABLES fs, db, th, ev, prev, moved, ncalls, next

vars == <<fs, db, th, ev, prev, moved, ncalls, next>>

(* ------------------------------ bounds -------------------------------- *)

\* number of calls of the three operations in one behaviour
MaxCalls == 4

\* number of external file creations and deletions in one behaviour
MaxExt == 1

(* ------------------------------ strings ------------------------------- *)

\* the characters used, in code point order (str comparison in sorted())
Ascii ==
  <<"-", ".", "/", "0", "1", "2", "3", "4", "5", "6", "7", "8", "9",
    "A", "B", "C", "D", "E", "F", "G", "H", "I", "J", "K", "L", "M",
    "N", "O", "P", "Q", "R", "S", "T", "U", "V", "W", "X", "Y", "Z",
    "_",
    "a", "b", "c", "d", "e", "f", "g", "h", "i", "j", "k", "l", "m",
    "n", "o", "p", "q", "r", "s", "t", "u", "v", "w", "x", "y", "z">>

Ord(c) == CHOOSE i \in 1..Len(Ascii) : Ascii[i] = c

UpperCase == <<"A", "B", "C", "D", "E", "F", "G", "H", "I", "J", "K", "L", "M",
               "N", "O", "P", "Q", "R", "S", "T", "U", "V", "W", "X", "Y", "Z">>

LowerCase == <<"a", "b", "c", "d", "e", "f", "g", "h", "i", "j", "k", "l", "m",
               "n", "o", "p", "q", "r", "s", "t", "u", "v", "w", "x", "y", "z">>

Digits == <<"0", "1", "2", "3", "4", "5", "6", "7", "8", "9">>

Range(s) == {s[i] : i \in 1..Len(s)}

\* string.ascii_letters + string.digits + '-_'
IdChars == Range(LowerCase) \cup Range(UpperCase) \cup Range(Digits) \cup {"-", "_"}

\* str.lower() on one character
LowerChar(c) ==
  IF c \in Range(UpperCase)
    THEN LowerCase[CHOOSE i \in 1..Len(UpperCase) : UpperCase[i] = c]
    ELSE c

\* str.lower()
Lower(s) == [i \in 1..Len(s) |-> LowerChar(s[i])]

\* str.rfind(c): the last index of c in s, 0 when absent (Python: -1)
RFind(s, c) ==
  IF \E i \in 1..Len(s) : s[i] = c
    THEN CHOOSE i \in 1..Len(s) : s[i] = c /\ \A j \in (i+1)..Len(s) : s[j] # c
    ELSE 0

\* str comparison a < b, by code points
RECURSIVE StrLess(_, _)
StrLess(a, b) ==
  IF b = <<>> THEN FALSE
  ELSE IF a = <<>> THEN TRUE
  ELSE IF a[1] # b[1] THEN Ord(a[1]) < Ord(b[1])
  ELSE StrLess(Tail(a), Tail(b))

(* ------------------------------- os.path ------------------------------ *)

\* os.path.join(a, b) (posixpath)
Join(a, b) ==
  IF b # <<>> /\ b[1] = "/" THEN b
  ELSE IF a = <<>> \/ a[Len(a)] = "/" THEN a \o b
  ELSE a \o <<"/">> \o b

\* os.path.basename(p): what follows the last separator
Basename(p) == SubSeq(p, RFind(p, "/") + 1, Len(p))

\* os.path.dirname(p): what precedes the last separator, trailing
\* separators stripped unless the head is made of separators only
RECURSIVE RStripSep(_)
RStripSep(h) ==
  IF h # <<>> /\ h[Len(h)] = "/" THEN RStripSep(SubSeq(h, 1, Len(h) - 1)) ELSE h

Dirname(p) ==
  LET head == SubSeq(p, 1, RFind(p, "/"))
  IN  IF head # <<>> /\ \E i \in 1..Len(head) : head[i] # "/"
        THEN RStripSep(head)
        ELSE head

\* os.path.splitext(p): <<root, ext>>; the extension starts at the last dot
\* of the last path component, leading dots of the component not counted
SplitExt(p) ==
  LET sepIndex == RFind(p, "/")
      dotIndex == RFind(p, ".")
  IN  IF dotIndex > sepIndex
           /\ \E k \in (sepIndex + 1)..(dotIndex - 1) : p[k] # "."
        THEN <<SubSeq(p, 1, dotIndex - 1), SubSeq(p, dotIndex, Len(p))>>
        ELSE <<p, <<>>>>

(* ------------------------- rename_video_files ------------------------- *)

VIDEO_EXTENSIONS ==
  { <<".", "m", "p", "4">>, <<".", "m", "o", "v">>, <<".", "a", "v", "i">>,
    <<".", "m", "k", "v">>, <<".", "w", "e", "b", "m">>, <<".", "f", "l", "v">> }

\* length of a generated identifier
IdLength == 11

\* a test that compares the extension as it is spelled
is_video_file_AsSpelled(file_path) == SplitExt(file_path)[2] \in VIDEO_EXTENSIONS

is_video_file(file_path) == Lower(SplitExt(file_path)[2]) \in VIDEO_EXTENSIONS

\* a test that takes no name for an id-based name
is_already_renamed_Never(filename) == FALSE

is_already_renamed(filename) ==
  LET name == SplitExt(filename)[1]
  IN  Len(name) = IdLength /\ \A i \in 1..Len(name) : name[i] \in IdChars


(* ------------------------------ the world ----------------------------- *)

\* the directory given to os.walk and its subdirectory
Root == <<"/", "v">>

Sub == <<"/", "v", "/", "s">>

Dirs == {Root, Sub}

\* names of files that come from outside the program: two videos, a file
\* that is no video, and a video whose stem has the form of an identifier
NameA == <<"a", ".", "m", "p", "4">>

NameB == <<"B", ".", "M", "P", "4">>

NameT == <<"n", ".", "t", "x", "t">>

NameL == <<"a", "b", "c", "d", "e", "f", "g", "h", "i", "j", "k", ".", "m", "p", "4">>

\* the name under which a file is dropped into the tree while the program runs
ExtNames == {NameA}

\* chars of generate_unique_video_id:
\* string.ascii_letters + string.digits + '-_'
Chars == LowerCase \o UpperCase \o Digits \o <<"-", "_">>

\* the default of the parameter length of generate_unique_video_id
DefaultLength == 11

\* two runs of the random source: the positions in chars that
\* random.choices picks, one per character
Draw1 == <<1, 52, 53, 63, 64, 2, 51, 54, 3, 50, 55>>

Draw2 == <<43, 18, 60, 64, 11, 63, 55, 38, 13, 40, 53>>

\* a generator that draws one character too few
new_id_short(draw) == [i \in 1..(DefaultLength - 1) |-> Chars[draw[i]]]

\* ''.join(random.choices(chars, k=length))
new_id_of(draw) == [i \in 1..DefaultLength |-> Chars[draw[i]]]

\* the identifiers random.choices can draw in this model
Id1 == new_id_of(Draw1)

Id2 == new_id_of(Draw2)

Ids == {Id1, Id2}

\* the directories rename_tree is called on (VIDEO_BASE_PATH)
WalkRoots == {Root}

Threads == {1, 2}

\* the request threads of the sequential specification
SeqThreads == {1}

Exists(f, p) == p \in DOMAIN f

\* a copy in place of the move: src stays
Moved_SourceKept(f, src, dst) ==
  [p \in DOMAIN f \cup {dst} |-> IF p = dst THEN f[src] ELSE f[p]]

\* shutil.move(src, dst) within one directory (os.rename): dst takes the
\* content of src, replacing what was there
Moved(f, src, dst) ==
  [p \in (DOMAIN f \ {src}) \cup {dst} |-> IF p = dst THEN f[src] ELSE f[p]]

\* the files os.walk lists in directory d
ListDir(f, d) == {Basename(p) : p \in {q \in DOMAIN f : Dirname(q) = d}}

IsPrefix(a, b) == Len(a) <= Len(b) /\ SubSeq(b, 1, Len(a)) = a

\* the directories os.walk(directory) visits, top down
RECURSIVE ByDepth(_)
ByDepth(ds) ==
  IF ds = {} THEN <<>>
  ELSE LET d == CHOOSE x \in ds : \A y \in ds : Len(x) <= Len(y)
       IN  <<d>> \o ByDepth(ds \ {d})

WalkDirs(directory) ==
  ByDepth({d \in Dirs : d = directory \/ IsPrefix(directory \o <<"/">>, d)})

(* ---------------------------- VideoDatabase --------------------------- *)

Row(video_id, original_name, new_name, path) ==
  [id |-> video_id, original_name |-> original_name,
   new_name |-> new_name, path |-> path]

NoRow == Row(<<>>, <<>>, <<>>, <<>>)

\* sort key of get_all: (os.path.dirname(row[3]), row[1])
KeyLess(r, s) ==
  \/ StrLess(Dirname(r.path), Dirname(s.path))
  \/ Dirname(r.path) = Dirname(s.path) /\ StrLess(r.original_name, s.original_name)

\* sorted(): stable, rows with equal keys keep the order of the table
RECURSIVE InsertSorted(_, _)
InsertSorted(sorted, r) ==
  IF sorted = <<>> THEN <<r>>
  ELSE IF KeyLess(r, Head(sorted)) THEN <<r>> \o sorted
  ELSE <<Head(sorted)>> \o InsertSorted(Tail(sorted), r)

RECURSIVE SortRows(_)
SortRows(rows) ==
  IF rows = <<>> THEN <<>>
  ELSE InsertSorted(SortRows(SubSeq(rows, 1, Len(rows) - 1)), rows[Len(rows)])

get_all(rows) == SortRows(rows)

HasId(rows, video_id) == \E i \in 1..Len(rows) : rows[i].id = video_id

\* a table whose id column is no key accepts every row
PrimaryKeyFree_NoKey(rows, video_id) == TRUE

\* id TEXT PRIMARY KEY: a row is accepted when no row has its id
PrimaryKeyFree(rows, video_id) == ~HasId(rows, video_id)

\* an INSERT with original_name and new_name in each other's place
insert_swapped(rows, video_id, original_name, new_name, path) ==
  Append(rows, Row(video_id, new_name, original_name, path))

\* INSERT INTO videos: the table after the insert (when the key is free)
insert(rows, video_id, original_name, new_name, path) ==
  Append(rows, Row(video_id, original_name, new_name, path))

\* DELETE FROM videos WHERE id = ?: the table without the rows of that id
RECURSIVE WithoutId(_, _)
WithoutId(rows, video_id) ==
  IF rows = <<>> THEN <<>>
  ELSE IF Head(rows).id = video_id THEN WithoutId(Tail(rows), video_id)
  ELSE <<Head(rows)>> \o WithoutId(Tail(rows), video_id)

\* a delete that reports success and leaves the row
delete_by_id_Kept(rows, video_id) ==
  IF ~HasId(rows, video_id) THEN <<FALSE, rows>> ELSE <<TRUE, rows>>

\* delete_by_id: <<returned value, table afterwards>>
delete_by_id(rows, video_id) ==
  IF ~HasId(rows, video_id) THEN <<FALSE, rows>>
  ELSE <<TRUE, WithoutId(rows, video_id)>>

\* an UPDATE that forgets path
update_name_only(rows, video_id, new_name, path) ==
  [i \in 1..Len(rows) |->
     IF rows[i].id = video_id THEN [rows[i] EXCEPT !.new_name = new_name] ELSE rows[i]]

\* an UPDATE that writes the restored name over original_name as well
update_original_too(rows, video_id, new_name, path) ==
  [i \in 1..Len(rows) |->
     IF rows[i].id = video_id
       THEN [rows[i] EXCEPT !.original_name = Basename(rows[i].path),
                            !.new_name = new_name, !.path = path]
       ELSE rows[i]]

\* an UPDATE that forgets new_name
update_path_only(rows, video_id, new_name, path) ==
  [i \in 1..Len(rows) |->
     IF rows[i].id = video_id THEN [rows[i] EXCEPT !.path = path] ELSE rows[i]]

\* UPDATE videos SET new_name = ?, path = ? WHERE id = ?
update(rows, video_id, new_name, path) ==
  [i \in 1..Len(rows) |->
     IF rows[i].id = video_id
       THEN [rows[i] EXCEPT !.new_name = new_name, !.path = path]
       ELSE rows[i]]

\* a generator that returns its first draw, whatever is on disk
generate_unique_video_id_NoCheck(f, dir_path, ext) ==
  {<<new_id, Join(dir_path, new_id \o ext)>> : new_id \in Ids}

\* generate_unique_video_id: the <<new_id, new_path>> pairs it can return
generate_unique_video_id(f, dir_path, ext) ==
  {<<new_id, Join(dir_path, new_id \o ext)>> : new_id \in
     {i \in Ids : ~Exists(f, Join(dir_path, i \o ext))}}


(* ------------------------------- state -------------------------------- *)
(* fs     the files: path |-> content (a serial number given at creation)  *)
(* db     the rows of the videos table, in table order                     *)
(* th     per request thread: the operation, its position and its locals   *)
(* ev     the outcome of the last step (what the code prints or raises)    *)
(* prev   per thread: the call before the current one                      *)
(* moved  the <<id, original_name>> of every file rename_tree has moved    *)
(* ncalls, next   counters of calls and of external events                 *)
(***************************************************************************)

Idle ==
  [op |-> "none", pc |-> "idle", arg |-> <<>>, dirs |-> <<>>, root |-> <<>>,
   files |-> {}, rows |-> <<>>, file_path |-> <<>>, row |-> NoRow,
   new_id |-> <<>>, new_path |-> <<>>, result |-> <<>>,
   db0 |-> <<>>, fs0 |-> <<>>, nmoved |-> 0, failed |-> FALSE, dirty |-> FALSE]

NoCall == [op |-> "none", pc |-> "idle", arg |-> <<>>, n |-> 0,
           failed |-> FALSE, dirty |-> FALSE]

NoEvent == [kind |-> "none", t |-> 0, src |-> <<>>, dst |-> <<>>]

Event(kind, t, src, dst) == [kind |-> kind, t |-> t, src |-> src, dst |-> dst]

\* the tree the program is started on
InitialFiles ==
  (Join(Root, NameA) :> 1) @@ (Join(Sub, NameB) :> 2)
    @@ (Join(Root, NameT) :> 3) @@ (Join(Sub, NameL) :> 4)

Init ==
  /\ fs = InitialFiles
  /\ db = <<>>
  /\ th = [t \in Threads |-> Idle]
  /\ ev = NoEvent
  /\ prev = [t \in Threads |-> NoCall]
  /\ moved = {}
  /\ ncalls = 0
  /\ next = 0

Finished(t) == th[t].pc \in {"idle", "done", "raised"}

\* a call starts: the locals of the last call are dropped
Enter(t, op, arg, pc) ==
  /\ Finished(t)
  /\ ncalls < MaxCalls
  /\ ncalls' = ncalls + 1
  /\ prev' = [prev EXCEPT ![t] =
       [op |-> th[t].op, pc |-> th[t].pc, arg |-> th[t].arg,
        n |-> Len(th[t].result), failed |-> th[t].failed, dirty |-> th[t].dirty]]
  /\ ev' = Event("call", t, <<>>, <<>>)
  /\ UNCHANGED <<fs, db, moved, next>>

Fresh(op, arg, pc) ==
  [Idle EXCEPT !.op = op, !.arg = arg, !.pc = pc, !.db0 = db, !.fs0 = fs]

(* ------------------ rename_videos_and_save_metadata -------------------- *)

\* lines 140-144: the call; os.walk starts on directory
RenameCall(t, directory) ==
  /\ Enter(t, "rename", directory, "r_walk")
  /\ th' = [th EXCEPT ![t] =
       [Fresh("rename", directory, "r_walk") EXCEPT !.dirs = WalkDirs(directory)]]

\* line 144: os.walk yields the next directory with the files it holds now
RenameListDir(t) ==
  /\ th[t].pc = "r_walk"
  /\ th[t].files = {}
  /\ th[t].dirs # <<>>
  /\ th' = [th EXCEPT ![t].root = Head(th[t].dirs),
                      ![t].dirs = Tail(th[t].dirs),
                      ![t].files = ListDir(fs, Head(th[t].dirs))]
  /\ ev' = Event("listdir", t, Head(th[t].dirs), <<>>)
  /\ UNCHANGED <<fs, db, prev, moved, ncalls, next>>

\* line 119: the guard of rename_single_video_and_save_metadata
SingleGuard(f, file_path) ==
  Exists(f, file_path) /\ is_video_file(file_path) /\ ~is_already_renamed(file_path)

\* lines 145-150 and 119-127: one file of the listing is skipped, or gets
\* its new id and new path
RenameNext(t) ==
  /\ th[t].pc = "r_walk"
  /\ \E file \in th[t].files :
       LET file_path == Join(th[t].root, file)
           ext == Lower(SplitExt(file_path)[2])
           dir_path == Dirname(file_path)
       IN  IF is_already_renamed(file)
             THEN /\ th' = [th EXCEPT ![t].files = @ \ {file}]
                  /\ ev' = Event("skip_renamed", t, file_path, <<>>)
           ELSE IF ~is_video_file(file_path)
             THEN /\ th' = [th EXCEPT ![t].files = @ \ {file}]
                  /\ ev' = Event("skip_not_video", t, file_path, <<>>)
           ELSE IF ~SingleGuard(fs, file_path)
             THEN /\ th' = [th EXCEPT ![t].files = @ \ {file}]
                  /\ ev' = Event("single_none", t, file_path, <<>>)
           ELSE \E g \in generate_unique_video_id(fs, dir_path, ext) :
                  /\ th' = [th EXCEPT ![t].files = @ \ {file},
                                      ![t].file_path = file_path,
                                      ![t].new_id = g[1],
                                      ![t].new_path = g[2],
                                      ![t].pc = "r_move"]
                  /\ ev' = Event("new_id", t, file_path, g[2])
  /\ UNCHANGED <<fs, db, prev, moved, ncalls, next>>

\* a rename that goes on to the insert although the move raised
RenameMoveFails_Swallowed(t) ==
  /\ th[t].pc = "r_move"
  /\ th' = [th EXCEPT ![t].pc = "r_insert", ![t].failed = TRUE]
  /\ ev' = Event("move_failed", t, th[t].file_path, th[t].new_path)
  /\ UNCHANGED <<fs, db, prev, moved, ncalls, next>>

\* line 129: shutil.move raises (no permission, file gone); nothing catches
\* it in rename_single_video_and_save_metadata nor in the loop of the caller
RenameMoveFails(t) ==
  /\ th[t].pc = "r_move"
  /\ th' = [th EXCEPT ![t].pc = "raised", ![t].failed = TRUE]
  /\ ev' = Event("move_failed", t, th[t].file_path, th[t].new_path)
  /\ UNCHANGED <<fs, db, prev, moved, ncalls, next>>

\* line 129: shutil.move(file_path, new_path)
RenameMove(t) ==
  /\ th[t].pc = "r_move"
  /\ Exists(fs, th[t].file_path)
  /\ fs' = Moved(fs, th[t].file_path, th[t].new_path)
  /\ moved' = moved \cup {<<th[t].new_id, Basename(th[t].file_path)>>}
  /\ th' = [th EXCEPT ![t].pc = "r_insert", ![t].nmoved = @ + 1]
  /\ ev' = Event("moved", t, th[t].file_path, th[t].new_path)
  /\ UNCHANGED <<db, prev, ncalls, next>>

\* lines 131-133 and 151-152: the insert, then the pair joins renamed_files;
\* sqlite3.IntegrityError leaves the call when the id is a key already
RenameInsert(t) ==
  /\ th[t].pc = "r_insert"
  /\ LET original_name == Basename(th[t].file_path)
         new_name == Basename(th[t].new_path)
     IN  IF PrimaryKeyFree(db, th[t].new_id)
           THEN /\ db' = insert(db, th[t].new_id, original_name, new_name,
                                th[t].new_path)
                /\ th' = [th EXCEPT ![t].pc = "r_walk",
                            ![t].result = Append(@, <<new_name, th[t].new_path>>)]
                /\ ev' = Event("inserted", t, th[t].file_path, th[t].new_path)
           ELSE /\ db' = db
                /\ th' = [th EXCEPT ![t].pc = "raised"]
                /\ ev' = Event("integrity_error", t, th[t].file_path, th[t].new_path)
  /\ UNCHANGED <<fs, prev, moved, ncalls, next>>

\* line 154: return renamed_files
RenameReturn(t) ==
  /\ th[t].pc = "r_walk"
  /\ th[t].files = {}
  /\ th[t].dirs = <<>>
  /\ th' = [th EXCEPT ![t].pc = "done"]
  /\ ev' = Event("return", t, <<>>, <<>>)
  /\ UNCHANGED <<fs, db, prev, moved, ncalls, next>>


(* ------------------ restore_video_filenames_from_db -------------------- *)

\* lines 179-182: the call; db.get_all() is read once
RestoreCall(t, update_db) ==
  /\ Enter(t, "restore", update_db, "s_loop")
  /\ th' = [th EXCEPT ![t] =
       [Fresh("restore", update_db, "s_loop") EXCEPT !.rows = get_all(db)]]

\* a restore that folds the case of the name
RestoredPath_Lower(row) == Join(Dirname(row.path), Lower(row.original_name))

\* line 187: restored_path of a row
RestoredPath(row) == Join(Dirname(row.path), row.original_name)

\* a restore that moves every record whose file is there
RestoreSkips_OnlyMissing(f, row) ==
  IF ~Exists(f, row.path) THEN "skip_missing" ELSE "move"

\* a restore that does not look whether the target is taken
RestoreSkips_NoCollisionCheck(f, row) ==
  IF ~Exists(f, row.path) THEN "skip_missing"
  ELSE IF Basename(row.path) = row.original_name THEN "skip_restored"
  ELSE "move"

\* lines 183-196: what the loop body decides for a row
RestoreSkips(f, row) ==
  IF ~Exists(f, row.path) THEN "skip_missing"
  ELSE IF Basename(row.path) = row.original_name THEN "skip_restored"
  ELSE IF Exists(f, RestoredPath(row)) THEN "skip_collision"
  ELSE "move"

\* lines 182-196: the next row is skipped or goes to the move
RestoreNext(t) ==
  /\ th[t].pc = "s_loop"
  /\ th[t].rows # <<>>
  /\ LET row == Head(th[t].rows)
         what == RestoreSkips(fs, row)
     IN  /\ th' = [th EXCEPT ![t].rows = Tail(@),
                             ![t].row = row,
                             ![t].pc = IF what = "move" THEN "s_move" ELSE "s_loop"]
         /\ ev' = Event(what, t, row.path, RestoredPath(row))
  /\ UNCHANGED <<fs, db, prev, moved, ncalls, next>>

\* line 199: shutil.move raises; nothing catches it
RestoreMoveFails(t) ==
  /\ th[t].pc = "s_move"
  /\ th' = [th EXCEPT ![t].pc = "raised", ![t].failed = TRUE]
  /\ ev' = Event("move_failed", t, th[t].row.path, RestoredPath(th[t].row))
  /\ UNCHANGED <<fs, db, prev, moved, ncalls, next>>

\* a restore that updates the table whatever update_db says
RestoreMove_AlwaysUpdate(t) ==
  /\ th[t].pc = "s_move"
  /\ Exists(fs, th[t].row.path)
  /\ fs' = Moved(fs, th[t].row.path, RestoredPath(th[t].row))
  /\ th' = [th EXCEPT ![t].pc = "s_update",
                      ![t].nmoved = @ + 1,
                      ![t].result = Append(@, <<th[t].row.path, RestoredPath(th[t].row)>>)]
  /\ ev' = Event("restored", t, th[t].row.path, RestoredPath(th[t].row))
  /\ UNCHANGED <<db, prev, moved, ncalls, next>>

\* lines 199-200: shutil.move(current_path, restored_path), and the pair
\* joins restored_files
RestoreMove(t) ==
  /\ th[t].pc = "s_move"
  /\ Exists(fs, th[t].row.path)
  /\ fs' = Moved(fs, th[t].row.path, RestoredPath(th[t].row))
  /\ th' = [th EXCEPT ![t].pc = IF th[t].arg THEN "s_update" ELSE "s_loop",
                      ![t].nmoved = @ + 1,
                      ![t].result = Append(@, <<th[t].row.path, RestoredPath(th[t].row)>>)]
  /\ ev' = Event("restored", t, th[t].row.path, RestoredPath(th[t].row))
  /\ UNCHANGED <<db, prev, moved, ncalls, next>>

\* lines 202-213: update_db
RestoreUpdate(t) ==
  /\ th[t].pc = "s_update"
  /\ db' = update(db, th[t].row.id, th[t].row.original_name, RestoredPath(th[t].row))
  /\ th' = [th EXCEPT ![t].pc = "s_loop"]
  /\ ev' = Event("updated", t, th[t].row.path, RestoredPath(th[t].row))
  /\ UNCHANGED <<fs, prev, moved, ncalls, next>>

\* line 215: return restored_files
RestoreReturn(t) ==
  /\ th[t].pc = "s_loop"
  /\ th[t].rows = <<>>
  /\ th' = [th EXCEPT ![t].pc = "done"]
  /\ ev' = Event("return", t, <<>>, <<>>)
  /\ UNCHANGED <<fs, db, prev, moved, ncalls, next>>

(* ------------------ remove_nonexistent_files_from_db ------------------- *)

\* lines 158-161: the call; db.get_all() is read once
PurgeCall(t) ==
  /\ Enter(t, "purge", <<>>, "p_loop")
  /\ th' = [th EXCEPT ![t] =
       [Fresh("purge", <<>>, "p_loop") EXCEPT !.rows = get_all(db)]]

\* a sweep that takes every row for orphaned
PurgeWants_Always(f, row) == TRUE

\* a sweep that spares the record of a file found under its original name
PurgeWants_SparesRestored(f, row) ==
  ~Exists(f, row.path) /\ ~Exists(f, Join(Dirname(row.path), row.original_name))

\* line 162: the row is to be deleted
PurgeWants(f, row) == ~Exists(f, row.path)

\* lines 161-162: the next row is kept or goes to the delete
PurgeNext(t) ==
  /\ th[t].pc = "p_loop"
  /\ th[t].rows # <<>>
  /\ LET row == Head(th[t].rows)
     IN  /\ th' = [th EXCEPT ![t].rows = Tail(@),
                             ![t].row = row,
                             ![t].pc = IF PurgeWants(fs, row) THEN "p_delete" ELSE "p_loop"]
         /\ ev' = Event(IF PurgeWants(fs, row) THEN "orphan" ELSE "keep", t, row.path, <<>>)
  /\ UNCHANGED <<fs, db, prev, moved, ncalls, next>>

\* lines 163-164: db.delete_by_id(video_id), and the path joins removed
PurgeDelete(t) ==
  /\ th[t].pc = "p_delete"
  /\ LET d == delete_by_id(db, th[t].row.id)
     IN  /\ db' = d[2]
         /\ th' = [th EXCEPT ![t].pc = "p_loop",
                     ![t].result = IF d[1] THEN Append(@, th[t].row.path) ELSE @]
         /\ ev' = Event(IF d[1] THEN "deleted" ELSE "not_deleted", t, th[t].row.path, <<>>)
  /\ UNCHANGED <<fs, prev, moved, ncalls, next>>

\* line 166: return removed
PurgeReturn(t) ==
  /\ th[t].pc = "p_loop"
  /\ th[t].rows = <<>>
  /\ th' = [th EXCEPT ![t].pc = "done"]
  /\ ev' = Event("return", t, <<>>, <<>>)
  /\ UNCHANGED <<fs, db, prev, moved, ncalls, next>>

(* ------------------------- outside the program ------------------------- *)

\* a file is dropped into a directory of the tree
ExtCreate(d, n) ==
  /\ next < MaxExt
  /\ ~Exists(fs, Join(d, n))
  /\ fs' = fs @@ (Join(d, n) :> Cardinality(DOMAIN InitialFiles) + next + 1)
  /\ next' = next + 1
  /\ th' = [t \in Threads |-> [th[t] EXCEPT !.dirty = TRUE]]
  /\ ev' = Event("ext_create", 0, Join(d, n), <<>>)
  /\ UNCHANGED <<db, prev, moved, ncalls>>

\* the rows whose path is p
RowsAt(rows, p) == {i \in 1..Len(rows) : rows[i].path = p}

\* a file the registry knows is deleted by hand
ExtDelete(p) ==
  /\ next < MaxExt
  /\ Exists(fs, p)
  /\ RowsAt(db, p) # {}
  /\ fs' = [q \in DOMAIN fs \ {p} |-> fs[q]]
  /\ next' = next + 1
  /\ th' = [t \in Threads |-> [th[t] EXCEPT !.dirty = TRUE]]
  /\ ev' = Event("ext_delete", 0, p, <<>>)
  /\ UNCHANGED <<db, prev, moved, ncalls>>

(* ------------- rename_single_video_and_save_metadata, called ----------- *)
(* ------------- on its own, and the searches of the registry ------------ *)

\* lines 118-127: the single-file operation called with a path: it returns
\* None, or goes on to the move with a new id and path
SingleCall(t, file_path) ==
  /\ Enter(t, "single", file_path, "r_move")
  /\ IF ~SingleGuard(fs, file_path)
       THEN th' = [th EXCEPT ![t] = Fresh("single", file_path, "done")]
       ELSE \E g \in generate_unique_video_id(
                       fs, Dirname(file_path), Lower(SplitExt(file_path)[2])) :
              th' = [th EXCEPT ![t] =
                [Fresh("single", file_path, "r_move") EXCEPT
                   !.file_path = file_path, !.new_id = g[1], !.new_path = g[2]]]

\* the LIKE operator of SQLite: % stands for any run of characters, _ for
\* any one character, ASCII letters match in either case
RECURSIVE Like(_, _)
Like(pattern, str) ==
  IF pattern = <<>> THEN str = <<>>
  ELSE IF pattern[1] = "%"
    THEN Like(Tail(pattern), str) \/ (str # <<>> /\ Like(pattern, Tail(str)))
  ELSE IF str = <<>> THEN FALSE
  ELSE IF pattern[1] = "_" THEN Like(Tail(pattern), Tail(str))
  ELSE LowerChar(pattern[1]) = LowerChar(str[1]) /\ Like(Tail(pattern), Tail(str))

\* SELECT * FROM videos WHERE field LIKE pattern: the rows, in table order
RECURSIVE Where(_, _, _)
Where(rows, field, pattern) ==
  IF rows = <<>> THEN <<>>
  ELSE IF Like(pattern, Head(rows)[field])
    THEN <<Head(rows)>> \o Where(Tail(rows), field, pattern)
  ELSE Where(Tail(rows), field, pattern)

\* _search_by_field: SELECT * FROM videos WHERE {field} LIKE '%substring%'
search_by_field(rows, field, substring) ==
  Where(rows, field, <<"%">> \o substring \o <<"%">>)

\* the substrings searched for
Needles == {NameB, Lower(NameB), <<"_">>, <<"/", "s", "/">>}

\* lines 64-73: find_by_original_name / find_by_path
FindCall(t, field, substring) ==
  /\ Enter(t, "find", <<field, substring>>, "done")
  /\ th' = [th EXCEPT ![t] =
       [Fresh("find", <<field, substring>>, "done") EXCEPT
          !.result = search_by_field(db, field, substring)]]

(* ------------------------- utils.rename_files -------------------------- *)

\* str.endswith(suffix)
EndsWith(str, suffix) ==
  Len(suffix) <= Len(str)
    /\ SubSeq(str, Len(str) - Len(suffix) + 1, Len(str)) = suffix

DotMp4 == <<".", "m", "p", "4">>

\* the class [#\uFF03'\u2019] of the second re.sub; the two characters
\* outside ASCII are written by their code points
SpecialChars == {"#", "U+FF03", "'", "U+2019"}

\* the characters str.strip() removes at both ends
Whitespace == {" ", "\t", "\n"}

\* re.sub(r'\[.*?\]', '', str): from each [ to the nearest ] after it, when
\* no line break lies between them (. does not match a line break)
RECURSIVE SubBrackets(_)
SubBrackets(str) ==
  IF str = <<>> THEN <<>>
  ELSE IF str[1] = "[" /\ \E j \in 2..Len(str) : str[j] = "]"
    THEN LET j == CHOOSE i \in 2..Len(str) :
                    str[i] = "]" /\ \A k \in 2..(i - 1) : str[k] # "]"
         IN  IF \A k \in 2..(j - 1) : str[k] # "\n"
               THEN SubBrackets(SubSeq(str, j + 1, Len(str)))
               ELSE <<str[1]>> \o SubBrackets(Tail(str))
  ELSE <<str[1]>> \o SubBrackets(Tail(str))

\* re.sub(r"[#\uFF03'\u2019]", '', str)
SubSpecial(str) == SelectSeq(str, LAMBDA c : c \notin SpecialChars)

\* str.strip()
RECURSIVE Strip(_)
Strip(str) ==
  IF str = <<>> THEN <<>>
  ELSE IF str[1] \in Whitespace THEN Strip(Tail(str))
  ELSE IF str[Len(str)] \in Whitespace THEN Strip(SubSeq(str, 1, Len(str) - 1))
  ELSE str

\* lines 253-254: new_filename
new_filename_of(filename) == Strip(SubSpecial(SubBrackets(filename)))

\* a test that never finds the target taken
TargetTaken_Never(f, new_path) == FALSE

\* line 260: os.path.exists(new_path)
TargetTaken(f, new_path) == Exists(f, new_path)

\* lines 248-250: the call; os.listdir(directory) is read once
CleanCall(t, directory) ==
  /\ Enter(t, "clean", directory, "c_loop")
  /\ th' = [th EXCEPT ![t] =
       [Fresh("clean", directory, "c_loop") EXCEPT
          !.root = directory, !.files = ListDir(fs, directory)]]

\* lines 250-266: the next name of the listing is passed over, or goes to
\* os.rename
CleanNext(t) ==
  /\ th[t].pc = "c_loop"
  /\ \E filename \in th[t].files :
       LET new_filename == new_filename_of(filename)
           new_path == Join(th[t].root, new_filename)
           old_path == Join(th[t].root, filename)
           what == IF ~EndsWith(filename, DotMp4) THEN "not_mp4"
                   ELSE IF new_filename = filename THEN "no_special"
                   ELSE IF TargetTaken(fs, new_path) THEN "already_exists"
                   ELSE "rename"
       IN  /\ th' = [th EXCEPT ![t].files = @ \ {filename},
                               ![t].file_path = old_path,
                               ![t].new_path = new_path,
                               ![t].pc = IF what = "rename" THEN "c_rename" ELSE "c_loop"]
           /\ ev' = Event(what, t, old_path, new_path)
  /\ UNCHANGED <<fs, db, prev, moved, ncalls, next>>

\* line 261: os.rename(old_path, new_path)
CleanRename(t) ==
  /\ th[t].pc = "c_rename"
  /\ Exists(fs, th[t].file_path)
  /\ fs' = Moved(fs, th[t].file_path, th[t].new_path)
  /\ th' = [th EXCEPT ![t].pc = "c_loop",
                      ![t].nmoved = @ + 1,
                      ![t].result = Append(@, <<th[t].file_path, th[t].new_path>>)]
  /\ ev' = Event("renamed", t, th[t].file_path, th[t].new_path)
  /\ UNCHANGED <<db, prev, moved, ncalls, next>>

\* lines 267-268: os.rename raises; the error is logged and the loop goes on
CleanRenameFails(t) ==
  /\ th[t].pc = "c_rename"
  /\ th' = [th EXCEPT ![t].pc = "c_loop", ![t].failed = TRUE]
  /\ ev' = Event("rename_failed", t, th[t].file_path, th[t].new_path)
  /\ UNCHANGED <<fs, db, prev, moved, ncalls, next>>

\* the listing is used up: the function returns
CleanReturn(t) ==
  /\ th[t].pc = "c_loop"
  /\ th[t].files = {}
  /\ th' = [th EXCEPT ![t].pc = "done"]
  /\ ev' = Event("return", t, <<>>, <<>>)
  /\ UNCHANGED <<fs, db, prev, moved, ncalls, next>>

(* --------------------------- specification ----------------------------- *)

Quiescent == \A t \in Threads : Finished(t)

Next ==
  \/ \E t \in SeqThreads : \E directory \in WalkRoots : RenameCall(t, directory)
  \/ \E t \in SeqThreads : RenameListDir(t)
  \/ \E t \in SeqThreads : RenameNext(t)
  \/ \E t \in SeqThreads : RenameMove(t)
  \/ \E t \in SeqThreads : RenameMoveFails(t)
  \/ \E t \in SeqThreads : RenameInsert(t)
  \/ \E t \in SeqThreads : RenameReturn(t)
  \/ \E t \in SeqThreads : \E update_db \in BOOLEAN : RestoreCall(t, update_db)
  \/ \E t \in SeqThreads : RestoreNext(t)
  \/ \E t \in SeqThreads : RestoreMove(t)
  \/ \E t \in SeqThreads : RestoreMoveFails(t)
  \/ \E t \in SeqThreads : RestoreUpdate(t)
  \/ \E t \in SeqThreads : RestoreReturn(t)
  \/ \E t \in SeqThreads : PurgeCall(t)
  \/ \E t \in SeqThreads : PurgeNext(t)
  \/ \E t \in SeqThreads : PurgeDelete(t)
  \/ \E t \in SeqThreads : PurgeReturn(t)
  \/ Quiescent /\ \E d \in Dirs : \E n \in ExtNames : ExtCreate(d, n)
  \/ Quiescent /\ \E p \in DOMAIN fs : ExtDelete(p)

Spec == Init /\ [][Next]_vars

\* rename_tree, the single-file operation and the searches, one call at a
\* time, no move failing
NextApi ==
  \/ \E t \in SeqThreads : \E directory \in WalkRoots : RenameCall(t, directory)
  \/ \E t \in SeqThreads : RenameListDir(t)
  \/ \E t \in SeqThreads : RenameNext(t)
  \/ \E t \in SeqThreads : RenameMove(t)
  \/ \E t \in SeqThreads : RenameInsert(t)
  \/ \E t \in SeqThreads : RenameReturn(t)
  \/ \E t \in SeqThreads : \E file_path \in DOMAIN fs : SingleCall(t, file_path)
  \/ \E t \in SeqThreads : \E field \in {"original_name", "path"} :
        \E substring \in Needles : FindCall(t, field, substring)

SpecApi == Init /\ [][NextApi]_vars

\* number of calls the request threads make in the concurrent specification
MaxConcCalls == 4

\* the tree the concurrent requests work on
InitialFilesConc == (Join(Root, NameA) :> 1)

InitConc ==
  /\ fs = InitialFilesConc
  /\ db = <<>>
  /\ th = [t \in Threads |-> Idle]
  /\ ev = NoEvent
  /\ prev = [t \in Threads |-> NoCall]
  /\ moved = {}
  /\ ncalls = 0
  /\ next = 0

\* the request threads call the three operations at any time; their steps
\* interleave, the registry and the filesystem being shared
NextConc ==
  \/ \E t \in Threads : \E directory \in WalkRoots :
        ncalls < MaxConcCalls /\ RenameCall(t, directory)
  \/ \E t \in Threads : RenameListDir(t)
  \/ \E t \in Threads : RenameNext(t)
  \/ \E t \in Threads : RenameMove(t)
  \/ \E t \in Threads : RenameMoveFails(t)
  \/ \E t \in Threads : RenameInsert(t)
  \/ \E t \in Threads : RenameReturn(t)
  \/ \E t \in Threads : \E update_db \in BOOLEAN :
        ncalls < MaxConcCalls /\ RestoreCall(t, update_db)
  \/ \E t \in Threads : RestoreNext(t)
  \/ \E t \in Threads : RestoreMove(t)
  \/ \E t \in Threads : RestoreMoveFails(t)
  \/ \E t \in Threads : RestoreUpdate(t)
  \/ \E t \in Threads : RestoreReturn(t)
  \/ \E t \in Threads : ncalls < MaxConcCalls /\ PurgeCall(t)
  \/ \E t \in Threads : PurgeNext(t)
  \/ \E t \in Threads : PurgeDelete(t)
  \/ \E t \in Threads : PurgeReturn(t)

SpecConc == InitConc /\ [][NextConc]_vars

\* number of rename_tree calls the two request threads make between them
MaxRaceCalls == 2

\* the tree two concurrent rename_tree calls walk: two videos in one
\* directory, with the same extension once it is lower-cased
InitialFilesRace == (Join(Root, NameA) :> 1) @@ (Join(Root, NameB) :> 2)

InitRace ==
  /\ fs = InitialFilesRace
  /\ db = <<>>
  /\ th = [t \in Threads |-> Idle]
  /\ ev = NoEvent
  /\ prev = [t \in Threads |-> NoCall]
  /\ moved = {}
  /\ ncalls = 0
  /\ next = 0

\* rename_tree called from two request threads, the steps interleaving
NextRace ==
  \/ \E t \in Threads : \E directory \in WalkRoots :
        ncalls < MaxRaceCalls /\ RenameCall(t, directory)
  \/ \E t \in Threads : RenameListDir(t)
  \/ \E t \in Threads : RenameNext(t)
  \/ \E t \in Threads : RenameMove(t)
  \/ \E t \in Threads : RenameMoveFails(t)
  \/ \E t \in Threads : RenameInsert(t)
  \/ \E t \in Threads : RenameReturn(t)

SpecRace == InitRace /\ [][NextRace]_vars

\* number of calls of utils.rename_files in one behaviour
MaxCleanCalls == 2

\* names found in a download directory: a bracketed tag, special characters,
\* a leading blank left by a tag, a clean name, an upper-case extension and
\* a file that is no .mp4
NameTag == <<"[", "x", "]", "a", ".", "m", "p", "4">>

NameHash == <<"#", "a", ".", "m", "p", "4">>

NameBlank == <<"[", "x", "]", " ", "c", "U+2019", "U+FF03", ".", "m", "p", "4">>

NameUpper == <<"B", "'", ".", "M", "P", "4">>

NameText == <<"n", "#", ".", "t", "x", "t">>

CleanNameSeq == <<NameTag, NameHash, NameBlank, NameA, NameUpper, NameText>>

CleanNames == Range(CleanNameSeq)

\* the directory utils.rename_files is called on holds any of these names
InitUtils ==
  /\ \E names \in SUBSET CleanNames :
       fs = [q \in {Join(Root, n) : n \in names} |->
               CHOOSE i \in 1..Len(CleanNameSeq) : CleanNameSeq[i] = Basename(q)]
  /\ db = <<>>
  /\ th = [t \in Threads |-> Idle]
  /\ ev = NoEvent
  /\ prev = [t \in Threads |-> NoCall]
  /\ moved = {}
  /\ ncalls = 0
  /\ next = 0

NextUtils ==
  \/ \E t \in SeqThreads : ncalls < MaxCleanCalls /\ CleanCall(t, Root)
  \/ \E t \in SeqThreads : CleanNext(t)
  \/ \E t \in SeqThreads : CleanRename(t)
  \/ \E t \in SeqThreads : CleanRenameFails(t)
  \/ \E t \in SeqThreads : CleanReturn(t)

SpecUtils == InitUtils /\ [][NextUtils]_vars


(* ------------------------------- claims -------------------------------- *)

Returned(t, op) == th[t].op = op /\ th[t].pc = "done"

\* the call has returned and nothing outside the program has happened since
JustReturned(t, op) == Returned(t, op) /\ ~th[t].dirty

Running(t, op) == th[t].op = op /\ ~Finished(t)

Contents(f) == {f[p] : p \in DOMAIN f}

\* C1: no two registry records have the same path, after any sequence of
\* rename_tree, restore_all and purge_missing calls and external changes.
C1_UniquePath ==
  \A i, j \in 1..Len(db) : db[i].path = db[j].path => i = j

\* C2: in every reachable state no two registry records have the same id,
\* also when the generator hands out an id that is a key already (it looks
\* at the file's directory only).
C2_UniqueId ==
  \A i, j \in 1..Len(db) : db[i].id = db[j].id => i = j

\* the generator returned an id that is a key of the table, the insert was
\* refused, and the table holds the earlier row
C2_Witness ==
  /\ ev.kind = "integrity_error"
  /\ \E t \in SeqThreads : HasId(db, th[t].new_id)

\* C3: whenever rename_tree, restore_all or purge_missing has returned,
\* every record has basename(path) = new_name.
C3_BasenameIsNewName ==
  \A t \in SeqThreads :
    (Returned(t, "rename") \/ Returned(t, "restore") \/ Returned(t, "purge"))
      => \A i \in 1..Len(db) : Basename(db[i].path) = db[i].new_name

\* restore_all(update_registry=True) has returned after rewriting a record
C3_Witness ==
  \E t \in SeqThreads :
    /\ Returned(t, "restore")
    /\ th[t].arg = TRUE
    /\ \E i \in 1..Len(db) : db[i] # th[t].db0[i]

\* C4: round trip: when restore_all(update_registry=True) has returned, each
\* file it moved back is the file the record was made for, it carries the
\* record's original_name in the record's directory, the record points at it,
\* and rename_tree takes it for a file to rename (not already renamed, a
\* video, passing the guard of the single-file operation).
C4_RoundTrip ==
  \A t \in SeqThreads :
    (JustReturned(t, "restore") /\ th[t].arg = TRUE) =>
      \A k \in 1..Len(th[t].result) :
        LET old == th[t].result[k][1]
            new == th[t].result[k][2]
        IN  /\ Exists(fs, new)
            /\ fs[new] = th[t].fs0[old]
            /\ ~Exists(fs, old)
            /\ \E i \in 1..Len(db) :
                 /\ th[t].db0[i].path = old
                 /\ db[i].path = new
                 /\ Basename(new) = db[i].original_name
                 /\ Dirname(new) = Dirname(old)
                 /\ <<db[i].id, Basename(new)>> \in moved
            /\ ~is_already_renamed(Basename(new))
            /\ SingleGuard(fs, new)

\* restore_all(update_registry=True) has returned having moved a file whose
\* name has an upper-case extension
C4_Witness ==
  \E t \in SeqThreads :
    /\ JustReturned(t, "restore")
    /\ th[t].arg = TRUE
    /\ \E k \in 1..Len(th[t].result) : Basename(th[t].result[k][2]) = NameB

\* C5: rename_tree run twice in succession on the same tree with no external
\* change in between: the second run moves no file, inserts no record and
\* returns an empty list.  (Stated for runs in which no move failed.)
C5_RenameIdempotent ==
  \A t \in SeqThreads :
    ( /\ th[t].op = "rename"
      /\ Finished(t)
      /\ ~th[t].dirty
      /\ prev[t].op = "rename"
      /\ prev[t].arg = th[t].arg
      /\ ~prev[t].dirty
      /\ ~prev[t].failed
      /\ ~th[t].failed )
    => ( /\ th[t].nmoved = 0
         /\ db = th[t].db0
         /\ th[t].pc = "done"
         /\ th[t].result = <<>> )

\* C6: when purge_missing has returned, the table holds exactly the rows of
\* the start whose path existed, unchanged and in their order; the returned
\* list holds exactly the paths of the other rows; no file has changed.
C6_PurgeExact ==
  \A t \in SeqThreads :
    JustReturned(t, "purge") =>
      LET Kept(r) == Exists(th[t].fs0, r.path)
          Gone(r) == ~Exists(th[t].fs0, r.path)
          gone == SelectSeq(get_all(th[t].db0), Gone)
      IN  /\ db = SelectSeq(th[t].db0, Kept)
          /\ th[t].result = [k \in 1..Len(gone) |-> gone[k].path]
          /\ fs = th[t].fs0

\* purge_missing has returned having deleted a record and kept another
C6_Witness ==
  \E t \in SeqThreads :
    /\ JustReturned(t, "purge")
    /\ th[t].result # <<>>
    /\ db # <<>>

\* C7: purge_missing called twice in a row with no external change in
\* between: the second call deletes no record and returns an empty list.
C7_PurgeIdempotent ==
  \A t \in SeqThreads :
    ( /\ JustReturned(t, "purge")
      /\ prev[t].op = "purge"
      /\ prev[t].pc = "done"
      /\ ~prev[t].dirty )
    => (th[t].result = <<>> /\ db = th[t].db0)

\* the second of two purge_missing calls has returned, the first having
\* deleted a record
C7_Witness ==
  \E t \in SeqThreads :
    /\ JustReturned(t, "purge")
    /\ prev[t].op = "purge"
    /\ prev[t].pc = "done"
    /\ ~prev[t].dirty
    /\ prev[t].n > 0

\* C8: restore_all never overwrites: a step of restore_all destroys no file,
\* and the step that finds a file at dirname(path)/original_name moves
\* nothing, changes no file and no record and adds nothing to the result.
C8_RestoreNeverOverwrites ==
  [][ \A t \in SeqThreads :
        /\ Running(t, "restore") => Contents(fs') = Contents(fs)
        /\ ( /\ th[t].pc = "s_loop"
             /\ th[t].rows # <<>>
             /\ Exists(fs, Head(th[t].rows).path)
             /\ Basename(Head(th[t].rows).path) # Head(th[t].rows).original_name
             /\ Exists(fs, RestoredPath(Head(th[t].rows)))
             /\ th'[t].rows # th[t].rows )
           => ( /\ fs' = fs
                /\ db' = db
                /\ th'[t].result = th[t].result
                /\ th'[t].pc = "s_loop" ) ]_vars

\* restore_all has skipped a record because its target was taken, and a
\* second record of the same directory has the same original_name
C8_Witness ==
  \E t \in SeqThreads :
    /\ ev.kind = "skip_collision"
    /\ Exists(fs, th[t].row.path)
    /\ Exists(fs, RestoredPath(th[t].row))
    /\ \E i \in 1..Len(db) :
         /\ db[i].id # th[t].row.id
         /\ db[i].original_name = th[t].row.original_name
         /\ Dirname(db[i].path) = Dirname(th[t].row.path)

\* C9: a failed move of rename_tree inserts no record: every record is the
\* record of a file that rename_tree has moved to its id-based name, and a
\* call whose move failed has left the table as it was at the failure.
C9_NoRecordWithoutMove ==
  /\ \A i \in 1..Len(db) : <<db[i].id, db[i].original_name>> \in moved
  /\ \A t \in SeqThreads :
       (th[t].op = "rename" /\ th[t].failed) =>
          /\ Len(db) = Len(th[t].db0) + Len(th[t].result)
          /\ th[t].nmoved = Len(th[t].result)

\* a move of rename_tree has failed after an earlier file of the same call
\* was registered
C9_Witness ==
  \E t \in SeqThreads :
    /\ th[t].op = "rename"
    /\ th[t].failed
    /\ th[t].result # <<>>
    /\ Exists(fs, th[t].file_path)

\* C10: partial failure: a failing move or registry write of rename_tree or
\* restore_all is not raised to the caller, and the remaining files of the
\* batch are still processed.
C10_NoFailureRaised ==
  \A t \in SeqThreads :
    (th[t].op \in {"rename", "restore"} /\ Finished(t)) =>
       /\ th[t].pc = "done"
       /\ th[t].files = {}
       /\ th[t].dirs = <<>>
       /\ th[t].rows = <<>>


\* C12: generate_unique_id returns only an id whose path directory/id+ext
\* does not exist when it returns, and the path is directory/id+extension;
\* hence an id returned before for the same directory and extension is not
\* returned again while its file exists.
C12_GeneratedPathFree ==
  \A t \in SeqThreads :
    th[t].pc = "r_move" =>
      LET ext == Lower(SplitExt(th[t].file_path)[2])
      IN  /\ ~Exists(fs, th[t].new_path)
          /\ th[t].new_path = Join(Dirname(th[t].file_path), th[t].new_id \o ext)
          /\ \A k \in 1..Len(th[t].result) :
               ( /\ Exists(fs, th[t].result[k][2])
                 /\ Dirname(th[t].result[k][2]) = Dirname(th[t].new_path)
                 /\ SplitExt(th[t].result[k][2])[2] = ext )
               => SplitExt(Basename(th[t].result[k][2]))[1] # th[t].new_id

\* the generator has returned for a second file of a directory, the file of
\* the first id being in place with the same extension
C12_Witness ==
  \E t \in SeqThreads :
    /\ th[t].pc = "r_move"
    /\ \E k \in 1..Len(th[t].result) :
         /\ Exists(fs, th[t].result[k][2])
         /\ Dirname(th[t].result[k][2]) = Dirname(th[t].new_path)
         /\ SplitExt(th[t].result[k][2])[2] = SplitExt(th[t].new_path)[2]

\* C13: every generated id has exactly 11 characters of the identifier
\* alphabet, so the name id+extension of every rename satisfies
\* is_already_renamed.
C13_IdShape ==
  /\ \A t \in SeqThreads :
       th[t].pc \in {"r_move", "r_insert"} =>
         /\ Len(th[t].new_id) = IdLength
         /\ \A i \in 1..Len(th[t].new_id) : th[t].new_id[i] \in IdChars
         /\ is_already_renamed(Basename(th[t].new_path))
  /\ \A t \in SeqThreads :
       th[t].op = "rename" =>
         \A k \in 1..Len(th[t].result) : is_already_renamed(th[t].result[k][1])

\* a file with an upper-case extension has been given its id-based name
C13_Witness ==
  \E t \in SeqThreads :
    /\ th[t].pc = "r_insert"
    /\ Basename(th[t].file_path) = NameB
    /\ Exists(fs, th[t].new_path)

\* C14: an insert with an id that is present fails and leaves the registry
\* unchanged: the existing record keeps its fields, no record is added.
C14_DuplicateInsertRejected ==
  [][ \A t \in SeqThreads :
        (th[t].pc = "r_insert" /\ HasId(db, th[t].new_id) /\ th'[t] # th[t])
          => (db' = db /\ th'[t].pc = "raised" /\ th'[t].result = th[t].result) ]_vars

\* an insert was refused whose row differs from the row that holds the id
C14_Witness ==
  \E t \in SeqThreads :
    /\ ev.kind = "integrity_error"
    /\ th[t].pc = "raised"
    /\ \E i \in 1..Len(db) :
         /\ db[i].id = th[t].new_id
         /\ db[i].path # th[t].new_path

\* the files rename_tree has to rename: the videos under the walked
\* directory whose name is not already an id-based name
Candidates(f, directory) ==
  {p \in DOMAIN f :
     /\ \E k \in 1..Len(WalkDirs(directory)) : Dirname(p) = WalkDirs(directory)[k]
     /\ ~is_already_renamed(Basename(p))
     /\ is_video_file(p)}

\* the rows of the table that the call of thread t has added
NewRows(t) == {i \in 1..Len(db) : i > Len(th[t].db0)}

\* after rename_tree, candidate p with extension e is at D/id+e and nowhere
\* else, and exactly one new record has original_name N, new_name id+e,
\* path D/id+e
RenamedAs(t, p, e) ==
  LET hit == {i \in NewRows(t) :
                /\ db[i].original_name = Basename(p)
                /\ db[i].new_name = db[i].id \o e
                /\ db[i].path = Join(Dirname(p), db[i].id \o e)
                /\ <<db[i].id, Basename(p)>> \in moved
                /\ Exists(fs, db[i].path)
                /\ fs[db[i].path] = th[t].fs0[p]}
  IN  /\ Cardinality(hit) = 1
      /\ Cardinality({q \in DOMAIN fs : fs[q] = th[t].fs0[p]}) = 1

\* C16 as claimed: the new name is the id followed by the extension of the
\* original basename.
C16_RenamedWithExtension ==
  \A t \in SeqThreads :
    JustReturned(t, "rename") =>
      \A p \in Candidates(th[t].fs0, th[t].arg) :
        RenamedAs(t, p, SplitExt(p)[2])

\* C16 amended: when rename_tree has returned, each candidate file is at
\* D/id+e and nowhere else, and exactly one new record has its original
\* name, new_name id+e and path D/id+e, e being the extension in lower case.
C16_RenamedWithLowerExtension ==
  \A t \in SeqThreads :
    JustReturned(t, "rename") =>
      \A p \in Candidates(th[t].fs0, th[t].arg) :
        RenamedAs(t, p, Lower(SplitExt(p)[2]))

\* rename_tree has returned having renamed a file with an upper-case
\* extension and another file
C16_Witness ==
  \E t \in SeqThreads :
    /\ JustReturned(t, "rename")
    /\ Cardinality(Candidates(th[t].fs0, th[t].arg)) >= 2
    /\ \E p \in Candidates(th[t].fs0, th[t].arg) : Basename(p) = NameB

\* C17: after restore_all(update_registry=True), every record whose file was
\* moved back has new_name = original_name and
\* path = dirname(old path)/original_name, and a file is at that path.
C17_RestoredRecord ==
  \A t \in SeqThreads :
    (JustReturned(t, "restore") /\ th[t].arg = TRUE) =>
      \A k \in 1..Len(th[t].result) :
        \A i \in 1..Len(db) :
          ( /\ th[t].db0[i].path = th[t].result[k][1]
            /\ Basename(th[t].db0[i].path) # th[t].db0[i].original_name )
          => /\ db[i].new_name = db[i].original_name
             /\ db[i].path = Join(Dirname(th[t].result[k][1]), db[i].original_name)
             /\ db[i].path = th[t].result[k][2]
             /\ Exists(fs, db[i].path)

\* restore_all(update_registry=True) has returned having moved two files
C17_Witness ==
  \E t \in SeqThreads :
    /\ JustReturned(t, "restore")
    /\ th[t].arg = TRUE
    /\ Len(th[t].result) >= 2

\* C18: restore_all(update_registry=False) leaves the registry unchanged,
\* whatever files it moves.
C18_RestoreKeepsRegistry ==
  \A t \in SeqThreads :
    (th[t].op = "restore" /\ th[t].arg = FALSE) => db = th[t].db0

\* restore_all(update_registry=False) has returned having moved a file
C18_Witness ==
  \E t \in SeqThreads :
    /\ Returned(t, "restore")
    /\ th[t].arg = FALSE
    /\ th[t].result # <<>>

\* C19: a record keeps its id and its original_name as long as it exists:
\* a step deletes rows, or appends one row with a new id, or changes only
\* new_name and path.
C19_IdAndOriginalNameFixed ==
  [][ \/ /\ Len(db') = Len(db)
         /\ \A i \in 1..Len(db) :
              /\ db'[i].id = db[i].id
              /\ db'[i].original_name = db[i].original_name
      \/ /\ Len(db') = Len(db) + 1
         /\ SubSeq(db', 1, Len(db)) = db
         /\ ~HasId(db, db'[Len(db')].id)
      \/ /\ Len(db') < Len(db)
         /\ \A j \in 1..Len(db') : \E i \in 1..Len(db) : db'[j] = db[i] ]_vars

\* restore_all has rewritten new_name and path of a record
C19_Witness ==
  \E t \in SeqThreads :
    /\ ev.kind = "updated"
    /\ \E i \in 1..Len(db) :
         /\ db[i].id = th[t].row.id
         /\ db[i].original_name = th[t].row.original_name
         /\ db[i].path # th[t].row.path


\* C11: a file whose basename without extension is 11 characters of the
\* identifier alphabet is never renamed and never registered, by rename_tree
\* and by the single-file operation called with the file's full path.
C11_RenamedNeverTouched ==
  /\ \A t \in SeqThreads :
       th[t].pc \in {"r_move", "r_insert"} =>
         ~is_already_renamed(Basename(th[t].file_path))
  /\ \A i \in 1..Len(db) : ~is_already_renamed(db[i].original_name)
  /\ \A p \in DOMAIN InitialFiles :
       is_already_renamed(Basename(p)) => (Exists(fs, p) /\ fs[p] = InitialFiles[p])

\* s contains sub, character for character
Contains(s, sub) ==
  \E i \in 1..(Len(s) + 1) :
    i + Len(sub) - 1 <= Len(s) /\ SubSeq(s, i, i + Len(sub) - 1) = sub

\* C20: find_by_substring on original_name or path returns exactly the
\* records whose field contains the substring, case-sensitively and with
\* every character of the substring taken literally.
C20_FindCaseSensitive ==
  \A t \in SeqThreads :
    Returned(t, "find") =>
      LET field == th[t].arg[1]
          Hit(r) == Contains(r[field], th[t].arg[2])
      IN  th[t].result = SelectSeq(th[t].db0, Hit)


\* C15: under every interleaving of rename_tree, restore_all and purge_missing
\* calls made by several request threads against the one registry, no two
\* records of the registry have the same id and no two have the same path.
C15_UniqueIdAndPath ==
  \A i, j \in 1..Len(db) :
    i # j => (db[i].id # db[j].id /\ db[i].path # db[j].path)


\* the extension of p, letter case set aside, is one of mp4, mov, avi, mkv,
\* webm, flv
Recognized(p) == Lower(SplitExt(p)[2]) \in VIDEO_EXTENSIONS

\* C21: rename_tree neither moves nor registers a file whose extension,
\* compared case-insensitively, is not a recognized one; every file under the
\* walked directory with a recognized extension in any letter case and a
\* basename that is no id-based name is renamed and registered when the call
\* has returned.
C21_OnlyVideosRenamed ==
  /\ \A t \in SeqThreads :
       (th[t].op = "rename" /\ th[t].pc \in {"r_move", "r_insert"})
         => Recognized(th[t].file_path)
  /\ \A i \in 1..Len(db) : Recognized(db[i].original_name)
  /\ \A t \in SeqThreads :
       (th[t].op = "rename" /\ ~th[t].dirty) =>
          \/ fs = th[t].fs0
          \/ \A p \in DOMAIN th[t].fs0 :
               (Exists(fs, p) /\ fs[p] = th[t].fs0[p]) \/ Recognized(p)
  /\ \A t \in SeqThreads :
       JustReturned(t, "rename") =>
          \A p \in DOMAIN th[t].fs0 :
            ( /\ \E k \in 1..Len(WalkDirs(th[t].arg)) :
                   Dirname(p) = WalkDirs(th[t].arg)[k]
              /\ Recognized(p)
              /\ ~is_already_renamed(Basename(p)) )
            => /\ ~Exists(fs, p)
               /\ \E i \in NewRows(t) :
                    /\ db[i].original_name = Basename(p)
                    /\ Dirname(db[i].path) = Dirname(p)
                    /\ Exists(fs, db[i].path)
                    /\ fs[db[i].path] = th[t].fs0[p]

\* rename_tree has returned on a tree that held a video with an upper-case
\* extension, now registered, and a file that is no video, still in place
C21_Witness ==
  \E t \in SeqThreads :
    /\ JustReturned(t, "rename")
    /\ Exists(th[t].fs0, Join(Sub, NameB))
    /\ \E i \in NewRows(t) : db[i].original_name = NameB
    /\ Exists(fs, Join(Root, NameT))


\* the cleaned names of the names in the directory, read off the names:
\* the [..] segment and the characters # U+FF03 ' U+2019 taken out, blanks
\* at the ends dropped
CleanedName(n) ==
  CASE n = NameTag -> NameA
    [] n = NameHash -> NameA
    [] n = NameBlank -> <<"c", ".", "m", "p", "4">>
    [] n = NameUpper -> <<"B", ".", "M", "P", "4">>
    [] n = NameText -> <<"n", ".", "t", "x", "t">>
    [] OTHER -> n

\* C22: utils.rename_files(directory) renames every .mp4 file whose cleaned
\* name differs from its name to the cleaned name (then the cleaned name
\* exists and the old name does not); when the cleaned name exists already,
\* also because another file of the directory cleans to it, the file stays
\* in place; no file is overwritten and no other file is touched.
C22_CleanRenames ==
  \A t \in SeqThreads :
    th[t].op = "clean" =>
      LET dir == th[t].arg
          old == th[t].fs0
          Dirty == {n \in ListDir(old, dir) :
                      EndsWith(n, DotMp4) /\ CleanedName(n) # n}
      IN  /\ Contents(fs) = Contents(old)
          /\ \A p \in DOMAIN old :
               Basename(p) \notin Dirty => (Exists(fs, p) /\ fs[p] = old[p])
          /\ Returned(t, "clean") =>
               \A n \in Dirty :
                 LET src == Join(dir, n)
                     dst == Join(dir, CleanedName(n))
                 IN  \/ /\ ~Exists(fs, src)
                        /\ Exists(fs, dst)
                        /\ fs[dst] = old[src]
                     \/ /\ Exists(fs, src)
                        /\ fs[src] = old[src]
                        /\ Exists(fs, dst)
                        /\ \/ Exists(old, dst)
                           \/ \E m \in Dirty \ {n} : CleanedName(m) = CleanedName(n)
                     \/ /\ th[t].failed
                        /\ Exists(fs, src)
                        /\ fs[src] = old[src]

\* rename_files has returned, no os.rename having failed, on a directory
\* where two files clean to one name and a third was renamed
C22_Witness ==
  \E t \in SeqThreads :
    /\ Returned(t, "clean")
    /\ ~th[t].failed
    /\ Exists(th[t].fs0, Join(Root, NameTag))
    /\ Exists(th[t].fs0, Join(Root, NameHash))
    /\ ~Exists(th[t].fs0, Join(Root, NameA))
    /\ Exists(fs, Join(Root, NameA))
    /\ Exists(fs, Join(Root, CleanedName(NameBlank)))
    /\ Len(th[t].result) = 2


\* C23: after rename_tree has returned or raised, every file it moved to an
\* id-based name has a record with its original name: no file is left
\* renamed on disk without a record.
C23_MovedFileRegistered ==
  \A t \in SeqThreads :
    (th[t].op = "rename" /\ Finished(t) /\ ~th[t].dirty) =>
      \A p \in DOMAIN fs : \A q \in DOMAIN th[t].fs0 :
        (fs[p] = th[t].fs0[q] /\ p # q) =>
          \E i \in 1..Len(db) :
            db[i].path = p /\ db[i].original_name = Basename(q)


\* C24: when two rename_tree calls run concurrently over one directory, no
\* file is overwritten: every file of the tree is still on disk, under some
\* name.
C24_NoFileOverwritten ==
  Contents(fs) = Contents(InitialFilesRace)

\* C28: when two rename_tree calls run concurrently over the same
\* directories, each candidate file is renamed at most once and gets at most
\* one record; nothing but a candidate is renamed or registered.
C28_RenamedAtMostOnce ==
  LET names == {Basename(q) : q \in DOMAIN InitialFilesRace}
  IN  /\ \A m \in moved : m[2] \in names
      /\ \A n \in names : Cardinality({m \in moved : m[2] = n}) <= 1
      /\ \A i \in 1..Len(db) : db[i].original_name \in names
      /\ \A i, j \in 1..Len(db) :
           db[i].original_name = db[j].original_name => i = j

\* one call has registered a file and the move of the other call, which
\* had chosen the same file, has failed because the file was gone
C28_Witness ==
  \E t \in Threads :
    /\ th[t].pc = "raised"
    /\ th[t].failed
    /\ ~Exists(fs, th[t].file_path)
    /\ \E i \in 1..Len(db) : db[i].original_name = Basename(th[t].file_path)
    /\ \E u \in Threads \ {t} : th[u].op = "rename" /\ th[u].nmoved > 0


\* C25: when restore_all(update_registry=True) and purge_missing run
\* concurrently, purge_missing deletes no record whose file is on disk: it
\* never deletes the record of a file that restore_all has just moved back.
C25_PurgeSparesRestored ==
  \A t, u \in Threads :
    ( /\ th[t].op = "purge"
      /\ ev.kind = "deleted"
      /\ ev.t = t
      /\ th[u].op = "restore"
      /\ th[u].arg = TRUE
      /\ th[u].pc \in {"s_update", "s_loop", "done"}
      /\ th[u].nmoved > 0
      /\ th[u].row.id = th[t].row.id )
    => ~Exists(fs, RestoredPath(th[u].row))


\* purge_missing has returned, the call before it was a
\* restore_all(update_registry=False) that returned, and nothing outside the
\* program has touched the tree since that call began
PurgedAfterStaleRestore(t) ==
  /\ JustReturned(t, "purge")
  /\ prev[t].op = "restore"
  /\ prev[t].pc = "done"
  /\ prev[t].arg = FALSE
  /\ ~prev[t].dirty

\* C26 as claimed: after restore_all(update_registry=False), a following
\* purge_missing keeps the record of every file that is on disk under its
\* original name.
C26_PurgeKeepsRestored ==
  \A t \in SeqThreads :
    PurgedAfterStaleRestore(t) =>
      \A i \in 1..Len(th[t].db0) :
        Exists(th[t].fs0, RestoredPath(th[t].db0[i])) => HasId(db, th[t].db0[i].id)

\* C26 amended: after restore_all(update_registry=False), a following
\* purge_missing deletes the record of every restored file, the file being
\* on disk under its original name: a record is deleted exactly when no file
\* is at its recorded path.
C26_PurgeDropsStale ==
  \A t \in SeqThreads :
    PurgedAfterStaleRestore(t) =>
      /\ Len(th[t].result) >= prev[t].n
      /\ \A i \in 1..Len(th[t].db0) :
           HasId(db, th[t].db0[i].id) <=> Exists(th[t].fs0, th[t].db0[i].path)

\* purge_missing has deleted the record of a file that restore_all had
\* moved back to its original name without updating the registry
C26_Witness ==
  \E t \in SeqThreads :
    /\ PurgedAfterStaleRestore(t)
    /\ prev[t].n > 0
    /\ \E i \in 1..Len(th[t].db0) :
         /\ Exists(fs, RestoredPath(th[t].db0[i]))
         /\ Basename(th[t].db0[i].path) # th[t].db0[i].original_name
         /\ ~HasId(db, th[t].db0[i].id)


\* C27: in sequential execution no call of rename_tree, restore_all or
\* purge_missing creates or destroys a file: as long as nothing outside the
\* program touches the tree, the tree has as many files as when the call
\* began and each of them is in the directory it was in, with its content;
\* only basenames change.
C27_FilesPreserved ==
  \A t \in SeqThreads :
    (th[t].op \in {"rename", "restore", "purge"} /\ ~th[t].dirty) =>
      \/ fs = th[t].fs0
      \/ /\ Cardinality(DOMAIN fs) = Cardinality(DOMAIN th[t].fs0)
         /\ \A p \in DOMAIN th[t].fs0 :
              \/ Exists(fs, p) /\ fs[p] = th[t].fs0[p]
              \/ \E q \in DOMAIN fs :
                   fs[q] = th[t].fs0[p] /\ Dirname(q) = Dirname(p)

\* restore_all has moved files back in the directory and in its
\* subdirectory, after a file was dropped into the tree from outside
C27_Witness ==
  \E t \in SeqThreads :
    /\ Returned(t, "restore")
    /\ ~th[t].dirty
    /\ next > 0
    /\ \E j, k \in 1..Len(th[t].result) :
         /\ Dirname(th[t].result[j][2]) = Root
         /\ Dirname(th[t].result[k][2]) = Sub


\* restore_all(update_registry=True) runs right after a
\* restore_all(update_registry=True) that returned, nothing outside the
\* program having touched the tree in between or since
SecondRestore(t) ==
  /\ th[t].op = "restore"
  /\ th[t].arg = TRUE
  /\ ~th[t].dirty
  /\ prev[t].op = "restore"
  /\ prev[t].arg = TRUE
  /\ prev[t].pc = "done"
  /\ ~prev[t].dirty

\* C29: restore_all(update_registry=True) is idempotent: run twice in
\* succession with no filesystem change in between, the second run moves no
\* file, changes no record and returns an empty list.
C29_RestoreIdempotent ==
  \A t \in SeqThreads :
    SecondRestore(t) =>
      /\ th[t].pc \in {"s_loop", "done"}
      /\ th[t].nmoved = 0
      /\ th[t].result = <<>>
      /\ db = th[t].db0
      /\ fs = th[t].fs0

\* the second run has returned; the first had moved files back, and the
\* registry holds a restored record and a record whose target is taken
C29_Witness ==
  \E t \in SeqThreads :
    /\ SecondRestore(t)
    /\ th[t].pc = "done"
    /\ prev[t].n > 0
    /\ \E i \in 1..Len(db) : Basename(db[i].path) = db[i].original_name
    /\ \E i \in 1..Len(db) :
         /\ Basename(db[i].path) # db[i].original_name
         /\ Exists(fs, db[i].path)

====
